---- MODULE Spec2Model ----
(***************************************************************************)
(* A model of the data-flow core of the engine:                            *)
(*   - DB::Block (Block.cpp): a std::list of columns (data) with two       *)
(*     derived indexes, index_by_position (a vector of list iterators) and *)
(*     index_by_name (a map from name to list iterator);                   *)
(*   - DB::ExecutionSpeedLimits::throttle (ExecutionSpeedLimits.cpp).      *)
(* A list iterator is a stable handle on a list node; it is modelled by    *)
(* the node's id, which the node keeps while other nodes come and go.      *)
(* Positions are 0-based as in the code; a TLA+ sequence is 1-based, so    *)
(* position p is the (p + 1)-th entry.                                     *)
(***************************************************************************)
EXTENDS Integers, Sequences, FiniteSets, TLC

\* ------------------------------------------------------------------ bounds

\* The largest number of columns a block holds in the model.
MaxColumns == 3

\* Column names the operations draw from.
Names == {"a", "b", "mid"}

\* Row counts of the columns inserted under SpecRows (0 = an empty column).
ColumnSizes == {0, 5, 7}

\* The row count of every column inserted under Spec.
DefaultSize == 5

\* The type of every column inserted under Spec and SpecRows.
DefaultType == "Int32"

\* The largest number of columns of each of the two blocks under SpecPair
\* and SpecCopy.
MaxPairColumns == 2

\* The largest number of columns the two blocks hold together under SpecMirror.
MaxTotalColumns == 3

VARIABLES
    data,               \* Block::data: the list, a sequence of nodes [id, name, size]
    index_by_position,  \* Block::index_by_position: a sequence of node ids
    index_by_name,      \* Block::index_by_name: a function from names to node ids
    crashed,            \* the process ran into undefined behaviour and was aborted
    last,               \* the last Block call: its arguments, outcome and pre-state
    other,              \* a second Block (the argument of swap and of the comparators)
    limits,             \* the ExecutionSpeedLimits object (its thresholds)
    throttler_sleep_microseconds,  \* ProfileEvents::ThrottlerSleepMicroseconds of the thread
    call                \* the last throttle call: its arguments and outcome

blockVars == <<data, index_by_position, index_by_name, crashed, last, other>>
limitVars == <<limits, throttler_sleep_microseconds, call>>
vars == <<data, index_by_position, index_by_name, crashed, last, other,
          limits, throttler_sleep_microseconds, call>>

\* ------------------------------------------------------- std::list helpers

\* The ids of the nodes of a list.
NodeIds(d) == {d[i].id : i \in 1..Len(d)}

\* A node is allocated with an id no live node has.
FreshId(d) == CHOOSE i \in 1..(Len(d) + 1) : i \notin NodeIds(d)

\* std::distance(d.begin(), it): the 0-based place of the node `it` designates.
Distance(d, it) == (CHOOSE i \in 1..Len(d) : d[i].id = it) - 1

\* *it: the node an iterator designates.
Deref(d, it) == d[Distance(d, it) + 1]

\* d.insert(d.end(), node)
ListPushBack(d, node) == Append(d, node)

\* d.insert(it, node): the node goes before the node `it` designates.
ListInsertBefore(d, it, node) ==
    LET k == Distance(d, it)
    IN  SubSeq(d, 1, k) \o <<node>> \o SubSeq(d, k + 1, Len(d))

\* d.erase(it)
ListErase(d, it) ==
    LET k == Distance(d, it)
    IN  SubSeq(d, 1, k) \o SubSeq(d, k + 2, Len(d))

\* m[key] = value on a std::map: the key is added or its value overwritten.
MapSet(m, key, value) ==
    [k \in (DOMAIN m) \cup {key} |-> IF k = key THEN value ELSE m[k]]

\* m.erase(m.find(key)) for a key the map holds.
MapErase(m, key) == [k \in (DOMAIN m) \ {key} |-> m[k]]

\* The empty map.
EmptyMap == [k \in {} |-> 0]

\* What m.erase(m.end()) may leave behind: it is undefined behaviour; a build
\* that does not abort keeps the map or loses some of its entries.
MapAfterEraseEnd(m) == {[k \in S |-> m[k]] : S \in SUBSET (DOMAIN m)}

\* ------------------------------------------------------------------ Block

\* The three members of a Block.
This == [data |-> data, index_by_position |-> index_by_position,
         index_by_name |-> index_by_name]

\* Block(): an empty list and two empty indexes.
EmptyBlock == [data |-> <<>>, index_by_position |-> <<>>, index_by_name |-> EmptyMap]

\* The outcome of a call: the block it leaves, the error it threw ("none" if
\* it returned), the value it returned (-1 if none) and whether it aborted.
Outcome(b, error, value) == [block |-> b, error |-> error, value |-> value, aborted |-> FALSE]

\* A ColumnWithNameAndType whose column is no ColumnArray: its name, the name
\* of its type and the size() of its column.
Plain(name, type, size) ==
    [name |-> name, type |-> type, size |-> size,
     array |-> FALSE, offsets_ref |-> 0, offsets |-> <<>>]

\* A ColumnWithNameAndType whose column is a ColumnArray: `offsets` are the
\* values of its offsets column (one per row) and `offsets_ref` the identity
\* of that offsets column, which ColumnArrays may share.
ArrayColumn(name, type, offsets_ref, offsets) ==
    [name |-> name, type |-> type, size |-> Len(offsets),
     array |-> TRUE, offsets_ref |-> offsets_ref, offsets |-> offsets]

\* The list node made from the element a caller passes.
Node(it, elem) ==
    [id |-> it, name |-> elem.name, type |-> elem.type, size |-> elem.size,
     array |-> elem.array, offsets_ref |-> elem.offsets_ref, offsets |-> elem.offsets]


\* insert(elem) were it to leave the name-index entry of a name it finds
\* (map::insert for operator[]).
Block_insertKeepFirst(b, elem) ==
    LET it == FreshId(b.data)
    IN  [data              |-> ListPushBack(b.data, Node(it, elem)),
         index_by_name     |-> IF elem.name \in DOMAIN b.index_by_name
                               THEN b.index_by_name
                               ELSE MapSet(b.index_by_name, elem.name, it),
         index_by_position |-> Append(b.index_by_position, it)]

\* void Block::insert(const ColumnWithNameAndType & elem)
Block_insert(b, elem) ==
    LET it == FreshId(b.data)
    IN  [data              |-> ListPushBack(b.data, Node(it, elem)),
         index_by_name     |-> MapSet(b.index_by_name, elem.name, it),
         index_by_position |-> Append(b.index_by_position, it)]

\* The vector after resize(size + 1), the loop that moves the entries from
\* `position` on up by one, and index_by_position[position] = it.
ShiftUp(ibp, position, it) ==
    [i \in 1..(Len(ibp) + 1) |->
        IF i - 1 < position THEN ibp[i]
        ELSE IF i - 1 = position THEN it
        ELSE ibp[i - 1]]

\* The loop of erase(position) were it to stop one entry short, leaving the
\* last entry but one as it was.
ShiftDownShort(ibp, position) ==
    [i \in 1..(Len(ibp) - 1) |->
        IF i - 1 < position \/ i = Len(ibp) - 1 THEN ibp[i] ELSE ibp[i + 1]]

\* The vector after the loop that moves the entries after `position` down by
\* one and resize(size - 1).
ShiftDown(ibp, position) ==
    [i \in 1..(Len(ibp) - 1) |-> IF i - 1 < position THEN ibp[i] ELSE ibp[i + 1]]

\* void Block::insert(size_t position, const ColumnWithNameAndType & elem)
Block_insert_at(b, position, elem) ==
    IF position > Len(b.index_by_position)
    THEN Outcome(b, "PositionOutOfBound", -1)
    ELSE IF position = Len(b.index_by_position)
    THEN Outcome(Block_insert(b, elem), "none", -1)
    ELSE LET it == FreshId(b.data)
         IN  Outcome(
                [data              |-> ListInsertBefore(b.data, b.index_by_position[position + 1],
                                                        Node(it, elem)),
                 index_by_name     |-> MapSet(b.index_by_name, elem.name, it),
                 index_by_position |-> ShiftUp(b.index_by_position, position, it)],
                "none", -1)

\* bool Block::has(const std::string & name) const
Block_has(b, name) == name \in DOMAIN b.index_by_name

\* void Block::insertUnique(const ColumnWithNameAndType & elem)
Block_insertUnique(b, elem) ==
    IF elem.name \notin DOMAIN b.index_by_name THEN Block_insert(b, elem) ELSE b


\* void Block::erase(size_t position): the set of its possible outcomes.  The
\* name-index entry is erased by the NAME of the node at `position`; when the
\* map has no such key, find() returns end() and erase(end()) is undefined.
Block_erase_position(b, position) ==
    IF position >= Len(b.index_by_position)
    THEN {Outcome(b, "PositionOutOfBound", -1)}
    ELSE LET it    == b.index_by_position[position + 1]
             name  == Deref(b.data, it).name
             rest  == [data              |-> ListErase(b.data, it),
                       index_by_name     |-> b.index_by_name,
                       index_by_position |-> ShiftDown(b.index_by_position, position)]
         IN  IF name \in DOMAIN b.index_by_name
             THEN {Outcome([rest EXCEPT !.index_by_name = MapErase(b.index_by_name, name)],
                           "none", -1)}
             ELSE {[block |-> b, error |-> "none", value |-> -1, aborted |-> TRUE]}
                  \cup {Outcome([rest EXCEPT !.index_by_name = m], "none", -1) :
                            m \in MapAfterEraseEnd(b.index_by_name)}

\* erase(name) were it to throw the error code of erase(position) on a miss.
Block_erase_name_WrongCode(b, name) ==
    IF name \notin DOMAIN b.index_by_name
    THEN Outcome(b, "PositionOutOfBound", -1)
    ELSE LET it       == b.index_by_name[name]
             position == Distance(b.data, it)
         IN  Outcome(
                [data              |-> ListErase(b.data, it),
                 index_by_name     |-> MapErase(b.index_by_name, name),
                 index_by_position |-> ShiftDown(b.index_by_position, position)],
                "none", -1)

\* void Block::erase(const String & name)
Block_erase_name(b, name) ==
    IF name \notin DOMAIN b.index_by_name
    THEN Outcome(b, "ColumnNotFound", -1)
    ELSE LET it       == b.index_by_name[name]
             position == Distance(b.data, it)
         IN  Outcome(
                [data              |-> ListErase(b.data, it),
                 index_by_name     |-> MapErase(b.index_by_name, name),
                 index_by_position |-> ShiftDown(b.index_by_position, position)],
                "none", -1)

\* const ColumnWithNameAndType & Block::getByPosition(size_t position) const:
\* the value is the node referred to.
Block_getByPosition(b, position) ==
    IF position >= Len(b.index_by_position)
    THEN Outcome(b, "PositionOutOfBound", -1)
    ELSE Outcome(b, "none", Deref(b.data, b.index_by_position[position + 1]))

\* size_t Block::getPositionByName(const std::string & name) const
Block_getPositionByName(b, name) ==
    IF name \notin DOMAIN b.index_by_name
    THEN Outcome(b, "ColumnNotFound", -1)
    ELSE Outcome(b, "none", Distance(b.data, b.index_by_name[name]))

\* const ColumnWithNameAndType & Block::getByName(const std::string & name) const:
\* the value is the node referred to.
Block_getByName(b, name) ==
    IF name \notin DOMAIN b.index_by_name
    THEN Outcome(b, "ColumnNotFound", -1)
    ELSE Outcome(b, "none", Deref(b.data, b.index_by_name[name]))

\* The loop of Block::dumpNames(): the names from the i-th on, ", " between them.
RECURSIVE DumpNamesLoop(_, _)
DumpNamesLoop(d, i) ==
    IF i > Len(d) THEN <<>>
    ELSE (IF i # 1 THEN <<", ">> ELSE <<>>) \o <<d[i].name>> \o DumpNamesLoop(d, i + 1)

\* std::string Block::dumpNames() const.  A string is kept as the sequence
\* of the pieces it is concatenated from.
Block_dumpNames(b) == DumpNamesLoop(b.data, 1)

\* The message of the exception of getByName and getPositionByName.
Message_getByName(b, name) ==
    <<"Not found column ", name, " in block. There are only columns: ">> \o Block_dumpNames(b)

\* The message of the exception of erase(name).
Message_erase_name(b, name) == <<"No such name in Block::erase(): '", name, "'">>


\* ColumnWithNameAndType::cloneEmpty(): the same name and type with a new
\* column of no rows; `ref` is the identity of the new offsets column when
\* the column is a ColumnArray.
ColumnWithNameAndType_cloneEmpty(elem, ref) ==
    IF elem.array
    THEN ArrayColumn(elem.name, elem.type, ref, <<>>)
    ELSE Plain(elem.name, elem.type, 0)

\* The loop of cloneEmpty() were it to add each column with insertUnique.
RECURSIVE CloneEmptyLoopUnique(_, _, _)
CloneEmptyLoopUnique(d, i, res) ==
    IF i > Len(d) THEN res
    ELSE CloneEmptyLoopUnique(d, i + 1,
             Block_insertUnique(res, ColumnWithNameAndType_cloneEmpty(d[i], FreshId(res.data))))

\* The loop of Block::cloneEmpty(): `res` holds the clones of the columns
\* before the i-th.
RECURSIVE CloneEmptyLoop(_, _, _)
CloneEmptyLoop(d, i, res) ==
    IF i > Len(d) THEN res
    ELSE CloneEmptyLoop(d, i + 1,
             Block_insert(res, ColumnWithNameAndType_cloneEmpty(d[i], FreshId(res.data))))

\* Block Block::cloneEmpty() const: the value is the new block.
Block_cloneEmpty(b) == Outcome(b, "none", CloneEmptyLoop(b.data, 1, EmptyBlock))


\* DataTypeNested::extractNestedTableName(name): the name up to its first
\* '.', the whole name when it has none.  The name is a sequence of
\* characters.
extractNestedTableName(name) ==
    LET dots == {i \in 1..Len(name) : name[i] = "."}
    IN  IF dots = {} THEN name
        ELSE SubSeq(name, 1, (CHOOSE i \in dots : \A j \in dots : i <= j) - 1)

\* bool ColumnArray::hasEqualOffsets(const ColumnArray & other) const: the
\* two share their offsets column, or the offsets have the same values.
hasEqualOffsets(column_array, other_array) ==
    \/ column_array.offsets_ref = other_array.offsets_ref
    \/ column_array.offsets = other_array.offsets

\* The loop of checkNestedArraysOffsets() were array_columns keyed by the
\* whole name of the column.
RECURSIVE CheckNestedLoopByColumn(_, _, _)
CheckNestedLoopByColumn(d, i, array_columns) ==
    IF i > Len(d) THEN "none"
    ELSE IF ~d[i].array THEN CheckNestedLoopByColumn(d, i + 1, array_columns)
    ELSE LET name == d[i].name
         IN  IF name \notin DOMAIN array_columns
             THEN CheckNestedLoopByColumn(d, i + 1, MapSet(array_columns, name, i))
             ELSE IF ~hasEqualOffsets(d[array_columns[name]], d[i])
             THEN "SizesMismatch"
             ELSE CheckNestedLoopByColumn(d, i + 1, array_columns)

\* The loop of Block::checkNestedArraysOffsets(): array_columns maps the
\* nested-table names seen before the i-th column to the first ColumnArray
\* of each (kept as its place in the list); the result is the error thrown.
RECURSIVE CheckNestedLoop(_, _, _)
CheckNestedLoop(d, i, array_columns) ==
    IF i > Len(d) THEN "none"
    ELSE IF ~d[i].array THEN CheckNestedLoop(d, i + 1, array_columns)
    ELSE LET name == extractNestedTableName(d[i].name)
         IN  IF name \notin DOMAIN array_columns
             THEN CheckNestedLoop(d, i + 1, MapSet(array_columns, name, i))
             ELSE IF ~hasEqualOffsets(d[array_columns[name]], d[i])
             THEN "SizesMismatch"
             ELSE CheckNestedLoop(d, i + 1, array_columns)

\* void Block::checkNestedArraysOffsets() const
Block_checkNestedArraysOffsets(b) == Outcome(b, CheckNestedLoop(b.data, 1, EmptyMap), -1)

\* column_array->getOffsetsColumn() = first->getOffsetsColumn(): the i-th
\* column now has the offsets column of the column at place `first`.
SetOffsetsColumn(d, i, first) ==
    [d EXCEPT ![i] = [@ EXCEPT !.offsets_ref = d[first].offsets_ref,
                              !.offsets = d[first].offsets,
                              !.size = Len(d[first].offsets)]]

\* The loop of optimizeNestedArraysOffsets() were it not to compare the
\* offsets before it re-points them.
RECURSIVE OptimizeNestedLoopNoThrow(_, _, _)
OptimizeNestedLoopNoThrow(d, i, array_columns) ==
    IF i > Len(d) THEN [data |-> d, error |-> "none"]
    ELSE IF ~d[i].array THEN OptimizeNestedLoopNoThrow(d, i + 1, array_columns)
    ELSE LET name == extractNestedTableName(d[i].name)
         IN  IF name \notin DOMAIN array_columns
             THEN OptimizeNestedLoopNoThrow(d, i + 1, MapSet(array_columns, name, i))
             ELSE OptimizeNestedLoopNoThrow(SetOffsetsColumn(d, i, array_columns[name]), i + 1,
                                            array_columns)

\* The loop of Block::optimizeNestedArraysOffsets(): the list as the loop
\* leaves it and the error thrown.  The columns re-pointed before a throw
\* stay re-pointed.
RECURSIVE OptimizeNestedLoop(_, _, _)
OptimizeNestedLoop(d, i, array_columns) ==
    IF i > Len(d) THEN [data |-> d, error |-> "none"]
    ELSE IF ~d[i].array THEN OptimizeNestedLoop(d, i + 1, array_columns)
    ELSE LET name == extractNestedTableName(d[i].name)
         IN  IF name \notin DOMAIN array_columns
             THEN OptimizeNestedLoop(d, i + 1, MapSet(array_columns, name, i))
             ELSE IF ~hasEqualOffsets(d[array_columns[name]], d[i])
             THEN [data |-> d, error |-> "SizesMismatch"]
             ELSE OptimizeNestedLoop(SetOffsetsColumn(d, i, array_columns[name]), i + 1,
                                     array_columns)

\* void Block::optimizeNestedArraysOffsets()
Block_optimizeNestedArraysOffsets(b) ==
    LET r == OptimizeNestedLoop(b.data, 1, EmptyMap)
    IN  Outcome([b EXCEPT !.data = r.data], r.error, -1)


\* size_t Block::columns() const
Block_columns(b) == Len(b.index_by_position)

\* The types whose IDataType::behavesAsNumber() is true, and those whose
\* IDataType::behavesAsString() is true.
NumberTypes == {"Int32", "Int64"}
StringTypes == {"String", "FixedString(8)"}
behavesAsNumber(type) == type \in NumberTypes
behavesAsString(type) == type \in StringTypes


\* typesAreCompatible were it without its test of the type names.
typesAreCompatibleNoName(lhs, rhs) ==
    IF behavesAsNumber(lhs) /\ behavesAsNumber(rhs) THEN TRUE
    ELSE IF behavesAsString(lhs) /\ behavesAsString(rhs) THEN TRUE
    ELSE FALSE

\* typesAreCompatible were its first test to hold when either type behaves
\* as a number.
typesAreCompatibleEither(lhs, rhs) ==
    IF behavesAsNumber(lhs) \/ behavesAsNumber(rhs) THEN TRUE
    ELSE IF behavesAsString(lhs) /\ behavesAsString(rhs) THEN TRUE
    ELSE IF lhs = rhs THEN TRUE
    ELSE FALSE

\* bool typesAreCompatible(const IDataType & lhs, const IDataType & rhs); a
\* type is kept as its getName().
typesAreCompatible(lhs, rhs) ==
    IF behavesAsNumber(lhs) /\ behavesAsNumber(rhs) THEN TRUE
    ELSE IF behavesAsString(lhs) /\ behavesAsString(rhs) THEN TRUE
    ELSE IF lhs = rhs THEN TRUE
    ELSE FALSE

\* The loop of blocksHaveEqualStructure from position i on.
RECURSIVE EqualStructureLoop(_, _, _, _)
EqualStructureLoop(lhs, rhs, i, columns) ==
    IF i >= columns THEN TRUE
    ELSE LET lhs_type == Block_getByPosition(lhs, i).value.type
             rhs_type == Block_getByPosition(rhs, i).value.type
         IN  IF lhs_type # rhs_type THEN FALSE
             ELSE EqualStructureLoop(lhs, rhs, i + 1, columns)

\* bool blocksHaveEqualStructure(const Block & lhs, const Block & rhs)
blocksHaveEqualStructure(lhs, rhs) ==
    LET columns == Block_columns(lhs)
    IN  IF Block_columns(rhs) # columns THEN FALSE
        ELSE EqualStructureLoop(lhs, rhs, 0, columns)

\* The loop of blocksHaveCompatibleStructure from position i on.
RECURSIVE CompatibleStructureLoop(_, _, _, _)
CompatibleStructureLoop(lhs, rhs, i, columns) ==
    IF i >= columns THEN TRUE
    ELSE LET lhs_type == Block_getByPosition(lhs, i).value.type
             rhs_type == Block_getByPosition(rhs, i).value.type
         IN  IF ~typesAreCompatible(lhs_type, rhs_type) THEN FALSE
             ELSE CompatibleStructureLoop(lhs, rhs, i + 1, columns)

\* bool blocksHaveCompatibleStructure(const Block & lhs, const Block & rhs)
blocksHaveCompatibleStructure(lhs, rhs) ==
    LET columns == Block_columns(lhs)
    IN  IF Block_columns(rhs) # columns THEN FALSE
        ELSE CompatibleStructureLoop(lhs, rhs, 0, columns)

\* void Block::clear()
Block_clear(b) ==
    [data |-> <<>>, index_by_name |-> EmptyMap, index_by_position |-> <<>>]

\* swap were it to leave the name indexes where they are.
Block_swapListAndPositions(b, o) ==
    [this  |-> [data |-> o.data, index_by_name |-> b.index_by_name,
                index_by_position |-> o.index_by_position],
     other |-> [data |-> b.data, index_by_name |-> o.index_by_name,
                index_by_position |-> b.index_by_position]]

\* void Block::swap(Block & other): the two blocks it leaves.  The nodes of
\* a std::list go with the list it is swapped with, so every iterator of
\* the indexes designates the node it designated.
Block_swap(b, o) ==
    [this  |-> [data |-> o.data, index_by_name |-> o.index_by_name,
                index_by_position |-> o.index_by_position],
     other |-> [data |-> b.data, index_by_name |-> b.index_by_name,
                index_by_position |-> b.index_by_position]]


\* data = other.data: the list gets nodes of its own, copies of the nodes of
\* the other list in their order.
ListCopy(d) == [i \in 1..Len(d) |-> [d[i] EXCEPT !.id = i]]

\* The loop of operator= from the pos-th node on (pos is 0-based): each node
\* is entered at its place in the vector and under its name in the map, a
\* later node of a name over an earlier one.
RECURSIVE AssignLoop(_, _, _, _)
AssignLoop(d, pos, ibp, ibn) ==
    IF pos >= Len(d) THEN [index_by_position |-> ibp, index_by_name |-> ibn]
    ELSE AssignLoop(d, pos + 1, [ibp EXCEPT ![pos + 1] = d[pos + 1].id],
                    MapSet(ibn, d[pos + 1].name, d[pos + 1].id))

\* Block & Block::operator= (const Block & other), and Block(const Block &
\* other), which is *this = other: the block `this` becomes.
Block_assign(o) ==
    LET d == ListCopy(o.data)
        r == AssignLoop(d, 0, [i \in 1..Len(d) |-> 0], EmptyMap)
    IN  [data |-> d, index_by_name |-> r.index_by_name,
         index_by_position |-> r.index_by_position]

\* The loop of rows() were it to pass over empty columns in its comparison.
RECURSIVE RowsLoopSkipEmpty(_, _, _)
RowsLoopSkipEmpty(d, i, res) ==
    IF i > Len(d) THEN [error |-> "none", value |-> res]
    ELSE LET size == d[i].size
         IN  IF res # 0 /\ size # 0 /\ size # res
             THEN [error |-> "SizesMismatch", value |-> -1]
             ELSE RowsLoopSkipEmpty(d, i + 1, size)

\* The loop of Block::rows(): `res` is the size of the column before the i-th.
RECURSIVE RowsLoop(_, _, _)
RowsLoop(d, i, res) ==
    IF i > Len(d) THEN [error |-> "none", value |-> res]
    ELSE LET size == d[i].size
         IN  IF res # 0 /\ size # res
             THEN [error |-> "SizesMismatch", value |-> -1]
             ELSE RowsLoop(d, i + 1, size)

\* size_t Block::rows() const
Block_rows(b) ==
    LET r == RowsLoop(b.data, 1, 0) IN Outcome(b, r.error, r.value)

\* --------------------------------------------------- ExecutionSpeedLimits

\* The factor between seconds and microseconds (1000000 and 1000000.0 in the code).
MicrosecondsPerSecond == 1000000

\* limitProgressingSpeed never sleeps longer than this (UInt64(1000000)).
MaxSleepPerCall == 1000000

\* The thread's sleep counter is not followed beyond this value.
MaxSleepCounter == 4000000

\* Thresholds the limiter is configured with (0 = not configured).  The two
\* durations are Poco::Timespan values, kept in microseconds.
SpeedValues    == {0, 1000}
MaxSpeedValues == {0, 100}
MaxTimeValues  == {0, 1000000}
TimeoutValues  == {0, 1000000}

\* The arguments of a throttle call and the counter values a thread starts with.
RowValues      == {0, 100, 1000}
ByteValues     == {0, 1000}
TotalRowValues == {0, 1000}
ElapsedValues  == {0, 1, 1000000, 2000000}
SleepCounterValues == {0, 2, 3000000}

\* The arguments of a limitProgressingSpeed call: the progress so far and
\* the speed it is held to.
ProgressValues   == {0, 100, 250, 1000}
SleepSpeedValues == {100, 1000}

Min(a, b) == IF a <= b THEN a ELSE b

\* a - b on UInt64.  2^64 is beyond the integers of the checker, so a UInt64
\* is kept as [hi, lo] with the value hi * 2^64 + lo: a - b wraps to
\* 2^64 - (b - a) when b > a.
U64Sub(a, b) == IF a >= b THEN [hi |-> 0, lo |-> a - b] ELSE [hi |-> 1, lo |-> a - b]

\* x < m * w for a wide w, with 0 <= x, m and |w.lo| all below 2^31: when
\* m * w.hi >= 1 the product is at least 2^64 - 2^62, above every such x.
LessThanProduct(x, m, w) == IF m * w.hi > 0 THEN TRUE ELSE x < m * w.lo

\* Poco::Timespan::totalSeconds(): the whole seconds of a duration.
TotalSeconds(timespan) == timespan \div MicrosecondsPerSecond

\* The numerator of elapsed_seconds (line 49-51): 0 unless the sleep counter
\* is GREATER than the elapsed time, and then the wrapped UInt64 difference.
\* elapsed_seconds is this value as a double, divided by 1000000.0; the
\* comparisons below are made on exact quotients.
ElapsedCorrected(total_elapsed_microseconds, sleep_microseconds) ==
    IF sleep_microseconds > total_elapsed_microseconds
    THEN U64Sub(total_elapsed_microseconds, sleep_microseconds)
    ELSE [hi |-> 0, lo |-> 0]

\* elapsed_seconds > 0
ElapsedPositive(e) == e.hi > 0 \/ e.lo > 0

\* progress / elapsed_seconds < speed, for elapsed_seconds > 0
RateBelow(progress, e, speed) ==
    LessThanProduct(progress * MicrosecondsPerSecond, speed, e)

\* elapsed_seconds * (double(total_rows) / read_rows) > max_execution_time.totalSeconds()
EstimateExceeds(e, total_rows, read_rows, max_execution_time) ==
    LessThanProduct(TotalSeconds(max_execution_time) * MicrosecondsPerSecond * read_rows,
                    total_rows, e)


\* limitProgressingSpeed were it to sleep the whole remainder.
limitProgressingSpeedWhole(total_progress_size, max_speed_in_seconds, total_elapsed_microseconds) ==
    LET desired_microseconds ==
            (total_progress_size * MicrosecondsPerSecond) \div max_speed_in_seconds
    IN  IF desired_microseconds > total_elapsed_microseconds
        THEN desired_microseconds - total_elapsed_microseconds
        ELSE 0

\* static void limitProgressingSpeed(total_progress_size, max_speed_in_seconds,
\* total_elapsed_microseconds): the microseconds slept and added to the counter.
limitProgressingSpeed(total_progress_size, max_speed_in_seconds, total_elapsed_microseconds) ==
    LET desired_microseconds ==
            (total_progress_size * MicrosecondsPerSecond) \div max_speed_in_seconds
    IN  IF desired_microseconds > total_elapsed_microseconds
        THEN Min(MaxSleepPerCall, desired_microseconds - total_elapsed_microseconds)
        ELSE 0

\* The gate were it to open at the timeout itself (>= for >).
GateOpenAtTimeout(l, total_rows, total_elapsed_microseconds) ==
    /\ \/ l.min_execution_speed # 0
       \/ l.max_execution_speed # 0
       \/ l.min_execution_speed_bytes # 0
       \/ l.max_execution_speed_bytes # 0
       \/ (total_rows # 0 /\ l.timeout_before_checking_execution_speed # 0)
    /\ total_elapsed_microseconds >= l.timeout_before_checking_execution_speed

\* The condition of the outer if of throttle (lines 42-44).  The elapsed time
\* is compared as an Int64; the cast changes no value below 2^63.
GateOpen(l, total_rows, total_elapsed_microseconds) ==
    /\ \/ l.min_execution_speed # 0
       \/ l.max_execution_speed # 0
       \/ l.min_execution_speed_bytes # 0
       \/ l.max_execution_speed_bytes # 0
       \/ (total_rows # 0 /\ l.timeout_before_checking_execution_speed # 0)
    /\ total_elapsed_microseconds > l.timeout_before_checking_execution_speed


\* The checks of throttle were the max-time extrapolation made also with
\* max_execution_time at 0.
ThrottleChecksAlwaysEstimate(l, e, read_rows, read_bytes, total_rows, total_elapsed_microseconds) ==
    IF l.min_execution_speed # 0 /\ RateBelow(read_rows, e, l.min_execution_speed)
    THEN [error |-> "TooSlow", reason |-> "min_rows", slept_rows |-> 0, slept_bytes |-> 0]
    ELSE IF l.min_execution_speed_bytes # 0 /\ RateBelow(read_bytes, e, l.min_execution_speed_bytes)
    THEN [error |-> "TooSlow", reason |-> "min_bytes", slept_rows |-> 0, slept_bytes |-> 0]
    ELSE IF /\ total_rows # 0 /\ read_rows # 0
            /\ EstimateExceeds(e, total_rows, read_rows, l.max_execution_time)
    THEN [error |-> "TooSlow", reason |-> "max_time", slept_rows |-> 0, slept_bytes |-> 0]
    ELSE [error |-> "none", reason |-> "none",
          slept_rows |->
            IF l.max_execution_speed # 0 /\ ~RateBelow(read_rows, e, l.max_execution_speed)
            THEN limitProgressingSpeed(read_rows, l.max_execution_speed, total_elapsed_microseconds)
            ELSE 0,
          slept_bytes |->
            IF l.max_execution_speed_bytes # 0 /\ ~RateBelow(read_bytes, e, l.max_execution_speed_bytes)
            THEN limitProgressingSpeed(read_bytes, l.max_execution_speed_bytes, total_elapsed_microseconds)
            ELSE 0]

\* What a throttle call does that passed the gate with elapsed_seconds > 0
\* (lines 55-81): the first failing check throws; otherwise the two
\* throttles sleep in turn, both on the elapsed time the caller passed.
ThrottleChecks(l, e, read_rows, read_bytes, total_rows, total_elapsed_microseconds) ==
    IF l.min_execution_speed # 0 /\ RateBelow(read_rows, e, l.min_execution_speed)
    THEN [error |-> "TooSlow", reason |-> "min_rows", slept_rows |-> 0, slept_bytes |-> 0]
    ELSE IF l.min_execution_speed_bytes # 0 /\ RateBelow(read_bytes, e, l.min_execution_speed_bytes)
    THEN [error |-> "TooSlow", reason |-> "min_bytes", slept_rows |-> 0, slept_bytes |-> 0]
    ELSE IF /\ l.max_execution_time # 0 /\ total_rows # 0 /\ read_rows # 0
            /\ EstimateExceeds(e, total_rows, read_rows, l.max_execution_time)
    THEN [error |-> "TooSlow", reason |-> "max_time", slept_rows |-> 0, slept_bytes |-> 0]
    ELSE [error |-> "none", reason |-> "none",
          slept_rows |->
            IF l.max_execution_speed # 0 /\ ~RateBelow(read_rows, e, l.max_execution_speed)
            THEN limitProgressingSpeed(read_rows, l.max_execution_speed, total_elapsed_microseconds)
            ELSE 0,
          slept_bytes |->
            IF l.max_execution_speed_bytes # 0 /\ ~RateBelow(read_bytes, e, l.max_execution_speed_bytes)
            THEN limitProgressingSpeed(read_bytes, l.max_execution_speed_bytes, total_elapsed_microseconds)
            ELSE 0]

\* void ExecutionSpeedLimits::throttle(read_rows, read_bytes, total_rows,
\* total_elapsed_microseconds), called with the thread's sleep counter at
\* `sleep_microseconds`: the error thrown and the microseconds slept.
throttle(l, sleep_microseconds, read_rows, read_bytes, total_rows, total_elapsed_microseconds) ==
    LET e == ElapsedCorrected(total_elapsed_microseconds, sleep_microseconds)
    IN  IF GateOpen(l, total_rows, total_elapsed_microseconds) /\ ElapsedPositive(e)
        THEN ThrottleChecks(l, e, read_rows, read_bytes, total_rows, total_elapsed_microseconds)
        ELSE [error |-> "none", reason |-> "none", slept_rows |-> 0, slept_bytes |-> 0]

\* ---------------------------------------------------------------- actions

\* The elements the Block operations are called with.
SpecElems == {Plain(n, DefaultType, DefaultSize) : n \in Names}
RowsElems == {Plain(n, DefaultType, z) : n \in Names, z \in ColumnSizes}

\* `last` before any call.
NoCall == [op |-> "none", position |-> -1, name |-> "", error |-> "none",
           value |-> -1, returned |-> <<>>, pre |-> EmptyBlock, pre_other |-> EmptyBlock]

\* `call` before any throttle call.
NoThrottle == [called |-> FALSE, op |-> "none", read_rows |-> 0, read_bytes |-> 0, total_rows |-> 0,
               total_elapsed_microseconds |-> 0, sleep_before |-> 0,
               error |-> "none", reason |-> "none", slept_rows |-> 0, slept_bytes |-> 0]

\* An ExecutionSpeedLimits with nothing configured.
NoLimits == [min_execution_speed |-> 0, max_execution_speed |-> 0,
             min_execution_speed_bytes |-> 0, max_execution_speed_bytes |-> 0,
             max_execution_time |-> 0, timeout_before_checking_execution_speed |-> 0]

\* A Block call on the block of the state with outcome `out`, reported with
\* the number `value` or the object `returned` (a sequence of one, or none).
Record(op, position, name, out, value, returned) ==
    /\ data' = out.block.data
    /\ index_by_position' = out.block.index_by_position
    /\ index_by_name' = out.block.index_by_name
    /\ crashed' = out.aborted
    /\ last' = [op |-> op, position |-> position, name |-> name, error |-> out.error,
                value |-> value, returned |-> returned, pre |-> This, pre_other |-> other]
    /\ UNCHANGED other
    /\ UNCHANGED limitVars

\* A call that returns nothing or a number.
Apply(op, position, name, out) == Record(op, position, name, out, out.value, <<>>)

\* A call that returns a column or a block.
ApplyReturning(op, position, name, out) ==
    Record(op, position, name, out, -1, IF out.error = "none" THEN <<out.value>> ELSE <<>>)

\* block.insert(elem)
Insert(Elems) ==
    /\ ~crashed
    /\ Len(data) < MaxColumns
    /\ \E elem \in Elems :
           Apply("insert", -1, elem.name, Outcome(Block_insert(This, elem), "none", -1))

\* block.insert(position, elem), also with a position out of bound
InsertAt(Elems) ==
    /\ ~crashed
    /\ \E position \in 0..(Len(data) + 1), elem \in Elems :
           /\ Len(data) < MaxColumns \/ position > Len(index_by_position)
           /\ Apply("insert_at", position, elem.name, Block_insert_at(This, position, elem))

\* block.insertUnique(elem)
InsertUnique(Elems) ==
    /\ ~crashed
    /\ \E elem \in Elems :
           /\ Len(data) < MaxColumns \/ Block_has(This, elem.name)
           /\ Apply("insertUnique", -1, elem.name,
                    Outcome(Block_insertUnique(This, elem), "none", -1))

\* block.erase(position), also with a position out of bound
ErasePosition ==
    /\ ~crashed
    /\ \E position \in 0..Len(data) :
           \E out \in Block_erase_position(This, position) :
               Apply("erase_position", position, "", out)

\* block.erase(name), also with a name the block does not hold
EraseName ==
    /\ ~crashed
    /\ \E name \in Names : Apply("erase_name", -1, name, Block_erase_name(This, name))

\* block.getByPosition(position), also with a position out of bound
GetByPosition ==
    /\ ~crashed
    /\ \E position \in 0..(Len(data) + 1) :
           ApplyReturning("getByPosition", position, "", Block_getByPosition(This, position))

\* block.getByName(name), also with a name the block does not hold
GetByName ==
    /\ ~crashed
    /\ \E name \in Names : ApplyReturning("getByName", -1, name, Block_getByName(This, name))

\* block.getPositionByName(name), also with a name the block does not hold
GetPositionByName ==
    /\ ~crashed
    /\ \E name \in Names :
           Apply("getPositionByName", -1, name, Block_getPositionByName(This, name))

\* block.rows()
Rows ==
    /\ ~crashed
    /\ Apply("rows", -1, "", Block_rows(This))


\* block.cloneEmpty()
CloneEmpty ==
    /\ ~crashed
    /\ ApplyReturning("cloneEmpty", -1, "", Block_cloneEmpty(This))


\* The columns inserted under SpecNested: arrays n.x, n.y and m.x with
\* either offsets, and n.z, which is no array.
NestedNames == {<<"n", ".", "x">>, <<"n", ".", "y">>, <<"m", ".", "x">>}
OffsetValues == {<<2, 4, 7>>, <<2, 5, 7>>}
ArrayType == "Array(Int32)"
NestedElems(ref) ==
    {ArrayColumn(n, ArrayType, ref, o) : n \in NestedNames, o \in OffsetValues}
        \cup {Plain(<<"n", ".", "z">>, DefaultType, DefaultSize)}

\* An offsets column no column of the list has.
FreshRef(d) == CHOOSE r \in 1..(Len(d) + 1) : \A i \in 1..Len(d) : d[i].offsets_ref # r

\* block.insert(elem) with a column that is a ColumnArray of its own
\* offsets, or no ColumnArray; the names are sequences of characters.
InsertNested ==
    /\ ~crashed
    /\ Len(data) < MaxColumns
    /\ \E elem \in NestedElems(FreshRef(data)) :
           Apply("insert", -1, "", Outcome(Block_insert(This, elem), "none", -1))

\* block.checkNestedArraysOffsets()
CheckNestedArraysOffsets ==
    /\ ~crashed
    /\ Apply("checkNestedArraysOffsets", -1, "", Block_checkNestedArraysOffsets(This))

\* block.optimizeNestedArraysOffsets()
OptimizeNestedArraysOffsets ==
    /\ ~crashed
    /\ Apply("optimizeNestedArraysOffsets", -1, "", Block_optimizeNestedArraysOffsets(This))


\* block.clear()
Clear ==
    /\ ~crashed
    /\ Apply("clear", -1, "", Outcome(Block_clear(This), "none", -1))

\* block.swap(other)
Swap ==
    /\ ~crashed
    /\ LET r == Block_swap(This, other)
       IN  /\ data' = r.this.data
           /\ index_by_position' = r.this.index_by_position
           /\ index_by_name' = r.this.index_by_name
           /\ other' = r.other
    /\ last' = [op |-> "swap", position |-> -1, name |-> "", error |-> "none",
                value |-> -1, returned |-> <<>>, pre |-> This, pre_other |-> other]
    /\ UNCHANGED crashed
    /\ UNCHANGED limitVars


\* block = other
Assign ==
    /\ ~crashed
    /\ Apply("assign", -1, "", Outcome(Block_assign(other), "none", -1))

\* blocksHaveEqualStructure(block, other)
BlocksHaveEqualStructure ==
    /\ ~crashed
    /\ ApplyReturning("blocksHaveEqualStructure", -1, "",
                      Outcome(This, "none", blocksHaveEqualStructure(This, other)))

\* blocksHaveCompatibleStructure(block, other)
BlocksHaveCompatibleStructure ==
    /\ ~crashed
    /\ ApplyReturning("blocksHaveCompatibleStructure", -1, "",
                      Outcome(This, "none", blocksHaveCompatibleStructure(This, other)))

\* limits.throttle(read_rows, read_bytes, total_rows, total_elapsed_microseconds)
\* on the thread: the sleeps are added to the thread's counter (line 36).
Throttle ==
    /\ throttler_sleep_microseconds <= MaxSleepCounter
    /\ \E read_rows \in RowValues, read_bytes \in ByteValues,
          total_rows \in TotalRowValues, total_elapsed_microseconds \in ElapsedValues :
           LET r == throttle(limits, throttler_sleep_microseconds, read_rows, read_bytes,
                             total_rows, total_elapsed_microseconds)
           IN  /\ throttler_sleep_microseconds' =
                      throttler_sleep_microseconds + r.slept_rows + r.slept_bytes
               /\ call' = [called |-> TRUE, op |-> "throttle", read_rows |-> read_rows, read_bytes |-> read_bytes,
                           total_rows |-> total_rows,
                           total_elapsed_microseconds |-> total_elapsed_microseconds,
                           sleep_before |-> throttler_sleep_microseconds,
                           error |-> r.error, reason |-> r.reason,
                           slept_rows |-> r.slept_rows, slept_bytes |-> r.slept_bytes]
    /\ UNCHANGED <<limits, data, index_by_position, index_by_name, crashed, last, other>>


\* limitProgressingSpeed(total_progress_size, max_speed_in_seconds,
\* total_elapsed_microseconds) on the thread, with a speed that is configured
\* (throttle calls it for a max speed that is not 0): the sleep is added to
\* the thread's counter (line 36).
LimitProgressingSpeed ==
    /\ throttler_sleep_microseconds <= MaxSleepCounter
    /\ \E total_progress_size \in ProgressValues, max_speed_in_seconds \in SleepSpeedValues,
          total_elapsed_microseconds \in ElapsedValues :
           LET slept == limitProgressingSpeed(total_progress_size, max_speed_in_seconds,
                                              total_elapsed_microseconds)
           IN  /\ throttler_sleep_microseconds' = throttler_sleep_microseconds + slept
               /\ call' = [called |-> TRUE, op |-> "limitProgressingSpeed",
                           total_progress_size |-> total_progress_size,
                           max_speed_in_seconds |-> max_speed_in_seconds,
                           total_elapsed_microseconds |-> total_elapsed_microseconds,
                           sleep_before |-> throttler_sleep_microseconds,
                           slept |-> slept]
    /\ UNCHANGED <<limits, data, index_by_position, index_by_name, crashed, last, other>>

\* --------------------------------------------------------- specifications

\* A default-constructed Block; no limiter in use.
Init ==
    /\ data = <<>>
    /\ index_by_position = <<>>
    /\ index_by_name = EmptyMap
    /\ crashed = FALSE
    /\ last = NoCall
    /\ other = EmptyBlock
    /\ limits = NoLimits
    /\ throttler_sleep_microseconds = 0
    /\ call = NoThrottle

\* The mutating operations of a Block.
Next ==
    \/ Insert(SpecElems)
    \/ InsertAt(SpecElems)
    \/ InsertUnique(SpecElems)
    \/ ErasePosition
    \/ EraseName

Spec == Init /\ [][Next]_vars

\* The names of the columns inserted under SpecQueries; the lookups and
\* erase(name) are called with every name of Names.
QueryNames == {"a", "b"}
QueryElems == {Plain(n, DefaultType, DefaultSize) : n \in QueryNames}

\* The mutating operations and the lookups of a Block, failing calls included.
QueriesNext ==
    \/ Insert(QueryElems)
    \/ InsertAt(QueryElems)
    \/ ErasePosition
    \/ EraseName
    \/ GetByPosition
    \/ GetByName
    \/ GetPositionByName

SpecQueries == Init /\ [][QueriesNext]_vars


\* The types of the columns inserted under SpecClone, and the columns: with
\* rows, of every name and type, and one without rows.
CloneTypes == {"Int32", "String"}
CloneElems ==
    {Plain(n, t, DefaultSize) : n \in QueryNames, t \in CloneTypes}
        \cup {Plain("a", DefaultType, 0)}

\* Blocks built from columns of any type and size, and cloneEmpty() on them.
CloneNext ==
    \/ Insert(CloneElems)
    \/ InsertAt(CloneElems)
    \/ CloneEmpty

SpecClone == Init /\ [][CloneNext]_vars


\* Blocks with nested tables, and the check and the sharing of their offsets.
NestedNext ==
    \/ InsertNested
    \/ CheckNestedArraysOffsets
    \/ OptimizeNestedArraysOffsets

SpecNested == Init /\ [][NestedNext]_vars


\* The columns inserted under SpecPair: numbers, strings and an array, under
\* two names, with and without rows.
PairElems ==
    {Plain("a", "Int32", DefaultSize), Plain("b", "Int32", 0),
     Plain("a", "Int64", DefaultSize), Plain("a", "String", DefaultSize),
     Plain("b", "FixedString(8)", DefaultSize), Plain("a", ArrayType, DefaultSize)}

\* block.insert(elem) while the block has fewer than MaxPairColumns columns
InsertPair ==
    /\ Len(data) < MaxPairColumns
    /\ Insert(PairElems)

\* Two blocks: one is built, cleared and swapped with the other, and the two
\* are compared.
PairNext ==
    \/ InsertPair
    \/ Clear
    \/ Swap
    \/ BlocksHaveEqualStructure
    \/ BlocksHaveCompatibleStructure

SpecPair == Init /\ [][PairNext]_vars


\* The mutators on a block of fewer than MaxPairColumns columns.
InsertCopy ==
    /\ Len(data) < MaxPairColumns
    /\ Insert(QueryElems)

InsertAtCopy ==
    /\ Len(data) < MaxPairColumns
    /\ InsertAt(QueryElems)

InsertUniqueCopy ==
    /\ Len(data) < MaxPairColumns
    /\ InsertUnique(QueryElems)

\* Two blocks: one is changed by every mutator, assigned from the other and
\* swapped with it.
CopyNext ==
    \/ InsertCopy
    \/ InsertAtCopy
    \/ InsertUniqueCopy
    \/ ErasePosition
    \/ EraseName
    \/ Clear
    \/ Swap
    \/ Assign

SpecCopy == Init /\ [][CopyNext]_vars


\* The calls that add columns, while the two blocks together hold fewer than
\* MaxTotalColumns columns, or no more after the assignment.
InsertMirror ==
    /\ Len(data) + Len(other.data) < MaxTotalColumns
    /\ Insert(QueryElems)

InsertAtMirror ==
    /\ Len(data) + Len(other.data) < MaxTotalColumns
    /\ InsertAt(QueryElems)

InsertUniqueMirror ==
    /\ Len(data) + Len(other.data) < MaxTotalColumns
    /\ InsertUnique(QueryElems)

AssignMirror ==
    /\ 2 * Len(other.data) <= MaxTotalColumns
    /\ Assign

\* Two blocks under every call that writes the position index.
MirrorNext ==
    \/ InsertMirror
    \/ InsertAtMirror
    \/ InsertUniqueMirror
    \/ ErasePosition
    \/ EraseName
    \/ Clear
    \/ Swap
    \/ AssignMirror

SpecMirror == Init /\ [][MirrorNext]_vars

\* Blocks built from columns of any size, and rows() on them.
RowsNext ==
    \/ Insert(RowsElems)
    \/ Rows

SpecRows == Init /\ [][RowsNext]_vars

\* A limiter with any thresholds, on a thread whose sleep counter other
\* throttlers of the thread may have raised already.
LimitsInit ==
    /\ data = <<>>
    /\ index_by_position = <<>>
    /\ index_by_name = EmptyMap
    /\ crashed = FALSE
    /\ last = NoCall
    /\ other = EmptyBlock
    /\ limits \in [min_execution_speed : SpeedValues, max_execution_speed : MaxSpeedValues,
                   min_execution_speed_bytes : SpeedValues,
                   max_execution_speed_bytes : MaxSpeedValues,
                   max_execution_time : MaxTimeValues,
                   timeout_before_checking_execution_speed : TimeoutValues]
    /\ throttler_sleep_microseconds \in SleepCounterValues
    /\ call = NoThrottle

LimitsNext == Throttle

SpecLimits == LimitsInit /\ [][LimitsNext]_vars


\* The speed throttle on its own, on a thread whose sleep counter may have
\* been raised already.
SleepInit ==
    /\ data = <<>>
    /\ index_by_position = <<>>
    /\ index_by_name = EmptyMap
    /\ crashed = FALSE
    /\ last = NoCall
    /\ other = EmptyBlock
    /\ limits = NoLimits
    /\ throttler_sleep_microseconds \in SleepCounterValues
    /\ call = NoThrottle

SleepNext == LimitProgressingSpeed

SpecSleep == SleepInit /\ [][SleepNext]_vars

\* ----------------------------------------------------------------- claims

\* The names of the columns of a list, in order.
ColumnNames(d) == [i \in 1..Len(d) |-> d[i].name]

\* The row counts of the columns of a list, in order.
ColumnRows(d) == [i \in 1..Len(d) |-> d[i].size]

\* The column the position index has at a 0-based position below the size.
AtPosition(b, position) == Block_getByPosition(b, position).value

\* C1: index consistency.  After every operation, getPositionByName succeeds
\* on the name of every element of the block and getByPosition of the
\* position it returns has that name; every key of the name index designates
\* a node that exactly one slot of the position index holds; and the position
\* index is as long as the list.
C1_IndexConsistency ==
    /\ \A i \in 1..Len(data) :
           LET found == Block_getPositionByName(This, data[i].name)
           IN  /\ found.error = "none"
               /\ Block_getByPosition(This, found.value).error = "none"
               /\ AtPosition(This, found.value).name = data[i].name
    /\ \A k \in DOMAIN index_by_name :
           Cardinality({p \in 1..Len(index_by_position) :
                            index_by_position[p] = index_by_name[k]}) = 1
    /\ Len(index_by_position) = Len(data)

\* C7: insert(p, e) with p in [0, n] on a block of size n gives a block of
\* size n + 1 with e at position p, the elements before p where they were,
\* the elements from p on one position up, and getPositionByName returning
\* the new position of every element whose name no other element has.
C7_InsertAtShifts ==
    (last.op = "insert_at" /\ last.position <= Len(last.pre.data)) =>
        LET p == last.position
            n == Len(last.pre.data)
        IN  /\ last.error = "none"
            /\ Len(data) = n + 1
            /\ Len(index_by_position) = n + 1
            /\ AtPosition(This, p).name = last.name
            /\ AtPosition(This, p).id \notin NodeIds(last.pre.data)
            /\ \A i \in 0..(n - 1) :
                   AtPosition(This, IF i < p THEN i ELSE i + 1) = AtPosition(last.pre, i)
            /\ \A i \in 0..n :
                   (Cardinality({j \in 1..(n + 1) : data[j].name = data[i + 1].name}) = 1)
                   => LET found == Block_getPositionByName(This, data[i + 1].name)
                      IN  found.error = "none" /\ found.value = i

\* C8: insertUnique(e) appends e if and only if no element of the block has
\* the name of e, and otherwise leaves the list and both indexes as they were.
C8_InsertUnique ==
    (last.op = "insertUnique") =>
        IF \E i \in 1..Len(last.pre.data) : last.pre.data[i].name = last.name
        THEN This = last.pre
        ELSE /\ Len(data) = Len(last.pre.data) + 1
             /\ SubSeq(data, 1, Len(last.pre.data)) = last.pre.data
             /\ data[Len(data)].name = last.name

\* Two columns of a list have different non-zero row counts.
DifferingNonZero(d) ==
    \E i, j \in 1..Len(d) : d[i].size # 0 /\ d[j].size # 0 /\ d[i].size # d[j].size

\* All columns of a non-empty list have the row count n.
AllOfSize(d, n) == Len(d) > 0 /\ \A i \in 1..Len(d) : d[i].size = n

\* C9: uniform rows.  rows() returns n on a block whose columns all have the
\* size n, and fails with SizesMismatch on a block that has two columns of
\* different non-zero sizes, wherever the two stand.
C9_UniformRows ==
    (last.op = "rows") =>
        /\ \A n \in ColumnSizes :
               AllOfSize(last.pre.data, n) => (last.error = "none" /\ last.value = n)
        /\ DifferingNonZero(last.pre.data) => last.error = "SizesMismatch"

\* C9: rows() was called on columns of 5, 5 and 7 rows and failed.
C9_Witness ==
    /\ last.op = "rows"
    /\ ColumnRows(last.pre.data) = <<5, 5, 7>>
    /\ last.error = "SizesMismatch"

\* C10: rows() never resolves a mismatch silently.  It returns a value only
\* if all columns have one row count, and fails with SizesMismatch whenever
\* two columns have different row counts, in whatever order they stand.
C10_NoSilentMismatch ==
    (last.op = "rows") =>
        LET differ == \E i, j \in 1..Len(last.pre.data) :
                          last.pre.data[i].size # last.pre.data[j].size
        IN  /\ last.error = "none" => ~differ
            /\ differ => last.error = "SizesMismatch"

\* The elapsed microseconds less the sleep counter, as the specification of
\* the limiter means the correction (no wrap).
CorrectedOf(c) == c.total_elapsed_microseconds - c.sleep_before

\* The call passed the grace period.
PastTimeout(c) ==
    c.total_elapsed_microseconds > limits.timeout_before_checking_execution_speed

\* The microseconds the call slept.
Slept(c) == c.slept_rows + c.slept_bytes

\* C2: min-speed floor.  A throttle call with min_execution_speed configured,
\* the elapsed time above timeout_before_checking_execution_speed and
\* read_rows per corrected elapsed second below min_execution_speed raises
\* TooSlow (min 1000, timeout 0, counter 0, 100 rows, 2,000,000 microseconds
\* is such a call).
C2_MinSpeedFloor ==
    (/\ call.called
     /\ limits.min_execution_speed # 0
     /\ PastTimeout(call)
     /\ CorrectedOf(call) > 0
     /\ call.read_rows * MicrosecondsPerSecond < limits.min_execution_speed * CorrectedOf(call))
    => call.error = "TooSlow"

\* C3: max-speed throttle.  A throttle call with max_execution_speed
\* configured, no floor and no max_execution_time configured, past the
\* timeout, with read_rows per corrected elapsed second at or above
\* max_execution_speed and the elapsed time short of what that speed asks for
\* (max 100, 1000 rows, 1,000,000 microseconds is such a call) sleeps, raises
\* nothing, and adds what it slept to the sleep counter.
C3_MaxSpeedThrottle ==
    (/\ call.called
     /\ limits.max_execution_speed # 0
     /\ limits.min_execution_speed = 0
     /\ limits.min_execution_speed_bytes = 0
     /\ limits.max_execution_time = 0
     /\ PastTimeout(call)
     /\ CorrectedOf(call) > 0
     /\ call.read_rows * MicrosecondsPerSecond >= limits.max_execution_speed * CorrectedOf(call)
     /\ (call.read_rows * MicrosecondsPerSecond) \div limits.max_execution_speed
            > call.total_elapsed_microseconds)
    => /\ call.error = "none"
       /\ call.slept_rows > 0
       /\ throttler_sleep_microseconds = call.sleep_before + Slept(call)

\* C4: grace period.  A throttle call whose elapsed time is not greater than
\* timeout_before_checking_execution_speed raises nothing, sleeps not at all
\* and leaves the sleep counter as it was, whatever is configured.
C4_GracePeriod ==
    (call.called /\ ~PastTimeout(call))
    => /\ call.error = "none"
       /\ Slept(call) = 0
       /\ throttler_sleep_microseconds = call.sleep_before

\* C4: a call within the grace period that a check past the gate would have
\* failed: a floor is configured and the sleep counter is above the elapsed
\* time, and the call returned.
C4_Witness ==
    /\ call.called
    /\ limits.min_execution_speed # 0
    /\ limits.timeout_before_checking_execution_speed # 0
    /\ call.total_elapsed_microseconds = limits.timeout_before_checking_execution_speed
    /\ call.sleep_before > call.total_elapsed_microseconds
    /\ call.error = "none"

\* C5: max-execution-time extrapolation.  A throttle call with
\* max_execution_time configured, total_rows and read_rows non-zero, past the
\* timeout, whose corrected elapsed seconds times total_rows / read_rows is
\* above max_execution_time raises TooSlow, also with nothing else configured
\* and a timeout of 0.
C5_MaxTimeExtrapolation ==
    (/\ call.called
     /\ limits.max_execution_time # 0
     /\ call.total_rows # 0
     /\ call.read_rows # 0
     /\ PastTimeout(call)
     /\ CorrectedOf(call) > 0
     /\ CorrectedOf(call) * call.total_rows
            > TotalSeconds(limits.max_execution_time) * MicrosecondsPerSecond * call.read_rows)
    => call.error = "TooSlow"

\* C6: correction guard.  A throttle call whose corrected elapsed time is
\* <= 0, the sleep counter above the elapsed time included, raises nothing
\* and sleeps not at all.
C6_CorrectionGuard ==
    (call.called /\ CorrectedOf(call) <= 0)
    => (call.error = "none" /\ Slept(call) = 0)

\* Some element of a list has the name.
NamePresent(d, name) == \E i \in 1..Len(d) : d[i].name = name

\* C11: failing Block operations raise the stated error and change nothing.
\* insert(position, e) with position > size, and erase(position) and
\* getByPosition(position) with position >= size, fail with
\* PositionOutOfBound; getByName, getPositionByName and erase(name) with a
\* name no element has fail with ColumnNotFound; the list and both indexes
\* are then as before the call.
C11_FailingCallsChangeNothing ==
    /\ (last.op = "insert_at" /\ last.position > Len(last.pre.data))
       => (last.error = "PositionOutOfBound" /\ This = last.pre /\ ~crashed)
    /\ (last.op \in {"erase_position", "getByPosition"} /\ last.position >= Len(last.pre.data))
       => (last.error = "PositionOutOfBound" /\ This = last.pre /\ ~crashed)
    /\ (last.op \in {"getByName", "getPositionByName", "erase_name"}
            /\ ~NamePresent(last.pre.data, last.name))
       => (last.error = "ColumnNotFound" /\ This = last.pre /\ ~crashed)

\* C11: erase(name) failed on a block of two columns that has no such name.
C11_Witness ==
    /\ last.op = "erase_name"
    /\ Len(last.pre.data) = 2
    /\ ~NamePresent(last.pre.data, last.name)
    /\ last.error = "ColumnNotFound"
    /\ This = last.pre

\* A list without its k-th node (1-based).
WithoutNode(d, k) == SubSeq(d, 1, k - 1) \o SubSeq(d, k + 1, Len(d))

\* The block is the block `pre` with the node `it` erased: the list lost
\* exactly that node, every column after it is one position down, and no key
\* of the name index designates it any more.
ErasedFrom(pre, it) ==
    LET p == Distance(pre.data, it)
    IN  /\ data = WithoutNode(pre.data, p + 1)
        /\ Len(index_by_position) = Len(pre.index_by_position) - 1
        /\ \A i \in 0..(Len(pre.index_by_position) - 2) :
               AtPosition(This, i) = AtPosition(pre, IF i < p THEN i ELSE i + 1)
        /\ \A k \in DOMAIN index_by_name : index_by_name[k] # it

\* C12: erase removes exactly one element and fails only when the target does
\* not exist.  erase(position) with position < size succeeds and removes the
\* element at that position, moving the later ones down by one; erase(name)
\* with a name some element has succeeds and removes the element the name
\* index designates.
C12_EraseRemovesOne ==
    /\ (last.op = "erase_position" /\ last.position < Len(last.pre.data))
       => /\ ~crashed
          /\ last.error = "none"
          /\ ErasedFrom(last.pre, last.pre.index_by_position[last.position + 1])
    /\ (last.op = "erase_name" /\ NamePresent(last.pre.data, last.name))
       => /\ ~crashed
          /\ last.error = "none"
          /\ last.name \in DOMAIN last.pre.index_by_name
          /\ ErasedFrom(last.pre, last.pre.index_by_name[last.name])

\* The pieces of `part`, in order and side by side, are pieces of `message`.
Includes(message, part) ==
    \E i \in 0..(Len(message) - Len(part)) : SubSeq(message, i + 1, i + Len(part)) = part

\* The message of the ColumnNotFound a name lookup threw on the block b.
MessageOf(op, b, name) ==
    IF op = "erase_name" THEN Message_erase_name(b, name) ELSE Message_getByName(b, name)

\* C17: ColumnNotFound messages carry the name dump.  When getByName,
\* getPositionByName or erase(name) fails on a name, the message of the error
\* includes dumpNames() of the block.
C17_NotFoundCarriesDump ==
    (last.op \in {"getByName", "getPositionByName", "erase_name"}
        /\ last.error = "ColumnNotFound")
    => Includes(MessageOf(last.op, last.pre, last.name), Block_dumpNames(last.pre))

\* C13: cloneEmpty() returns a block with the column count of the block and,
\* position by position, the same names and types, every column of it with
\* zero rows whatever the rows of the block; the block itself is unchanged.
C13_CloneEmpty ==
    last.op = "cloneEmpty"
    => /\ last.error = "none"
       /\ Len(last.returned[1].index_by_position) = Len(last.pre.index_by_position)
       /\ Len(last.returned[1].data) = Len(last.pre.data)
       /\ \A i \in 0..(Len(last.pre.index_by_position) - 1) :
              /\ AtPosition(last.returned[1], i).name = AtPosition(last.pre, i).name
              /\ AtPosition(last.returned[1], i).type = AtPosition(last.pre, i).type
              /\ AtPosition(last.returned[1], i).size = 0
       /\ This = last.pre

\* cloneEmpty() was called on a block of two columns of the same name, of
\* different types, one of them with rows.
C13_Witness ==
    /\ last.op = "cloneEmpty"
    /\ Len(last.pre.data) >= 2
    /\ last.pre.data[1].name = last.pre.data[2].name
    /\ last.pre.data[1].type # last.pre.data[2].type
    /\ last.pre.data[1].size > 0
    /\ Len(last.returned[1].data) = Len(last.pre.data)

\* The place of the first array column of the list that belongs to the
\* nested table of the j-th column.
FirstOfGroup(d, j) ==
    CHOOSE i \in 1..j :
        /\ d[i].array
        /\ extractNestedTableName(d[i].name) = extractNestedTableName(d[j].name)
        /\ \A k \in 1..(i - 1) :
               ~(d[k].array
                 /\ extractNestedTableName(d[k].name) = extractNestedTableName(d[j].name))

\* Every array column has the offsets of the first array column of its
\* nested table.
GroupsAgree(d) ==
    \A j \in 1..Len(d) : d[j].array => d[j].offsets = d[FirstOfGroup(d, j)].offsets

\* C14: checkNestedArraysOffsets passes if and only if, for every nested
\* table, all array columns of the table have the per-row offsets of the
\* first of them, and fails with SizesMismatch otherwise; columns that are
\* no arrays are ignored, and the call never modifies the block.
C14_CheckNestedOffsets ==
    last.op = "checkNestedArraysOffsets"
    => /\ (last.error = "none") <=> GroupsAgree(last.pre.data)
       /\ last.error \in {"none", "SizesMismatch"}
       /\ This = last.pre
       /\ ~crashed

\* The check failed on a block with n.x of offsets [2,4,7], then n.z, no
\* array, then n.y of offsets [2,5,7].
C14_Witness ==
    /\ last.op = "checkNestedArraysOffsets"
    /\ last.error = "SizesMismatch"
    /\ Len(last.pre.data) = 3
    /\ last.pre.data[1].array /\ last.pre.data[1].offsets = <<2, 4, 7>>
    /\ ~last.pre.data[2].array
    /\ last.pre.data[3].array /\ last.pre.data[3].offsets = <<2, 5, 7>>
    /\ last.pre.data[1].name # last.pre.data[3].name

\* C15: optimizeNestedArraysOffsets succeeds on exactly the blocks on which
\* checkNestedArraysOffsets succeeds; after a successful call every array
\* column has the offsets column of the first array column of its nested
\* table, the offsets of every column have the values they had, nothing else
\* of the block changed, and checkNestedArraysOffsets passes.
C15_OptimizeNestedOffsets ==
    last.op = "optimizeNestedArraysOffsets"
    => /\ (last.error = "none")
              <=> (Block_checkNestedArraysOffsets(last.pre).error = "none")
       /\ last.error = "none"
              => /\ \A j \in 1..Len(data) :
                        data[j].array
                            => data[j].offsets_ref = data[FirstOfGroup(data, j)].offsets_ref
                 /\ Len(data) = Len(last.pre.data)
                 /\ \A j \in 1..Len(data) :
                        data[j] = [last.pre.data[j] EXCEPT !.offsets_ref = data[j].offsets_ref]
                 /\ index_by_position = last.pre.index_by_position
                 /\ index_by_name = last.pre.index_by_name
                 /\ Block_checkNestedArraysOffsets(This).error = "none"

\* The call succeeded on a block where two array columns of one nested table
\* had offsets columns of their own, and a third array column is of another
\* table: the two share one now, the third kept its own.
C15_Witness ==
    /\ last.op = "optimizeNestedArraysOffsets"
    /\ last.error = "none"
    /\ \E i, j, k \in 1..Len(data) :
           /\ i < j
           /\ last.pre.data[i].array /\ last.pre.data[j].array /\ data[k].array
           /\ last.pre.data[i].offsets_ref # last.pre.data[j].offsets_ref
           /\ data[i].offsets_ref = data[j].offsets_ref
           /\ data[k].offsets_ref # data[i].offsets_ref

\* The names of the types of the columns of a block, by position.
TypeNames(b) ==
    [i \in 1..Len(b.index_by_position) |-> Deref(b.data, b.index_by_position[i]).type]

\* C16: blocksHaveEqualStructure(l, r) is true iff l and r have the same
\* number of columns and equal type names at every position;
\* blocksHaveCompatibleStructure(l, r) is true iff they have the same number
\* of columns and at every position both types behave as number, or both
\* behave as string, or the type names are equal.  Only the type names enter
\* the right-hand sides: names and data have no influence.
C16_StructuralComparators ==
    LET l == TypeNames(last.pre)
        r == TypeNames(last.pre_other)
    IN  /\ last.op = "blocksHaveEqualStructure"
           => /\ last.returned[1] <=> (Len(l) = Len(r) /\ \A i \in 1..Len(l) : l[i] = r[i])
              /\ This = last.pre /\ other = last.pre_other
        /\ last.op = "blocksHaveCompatibleStructure"
           => /\ last.returned[1]
                    <=> /\ Len(l) = Len(r)
                        /\ \A i \in 1..Len(l) :
                               \/ l[i] \in NumberTypes /\ r[i] \in NumberTypes
                               \/ l[i] \in StringTypes /\ r[i] \in StringTypes
                               \/ l[i] = r[i]
              /\ This = last.pre /\ other = last.pre_other

\* (a: Int32, with rows) and (b: Int64, without) were found compatible.
C16_Witness ==
    /\ last.op = "blocksHaveCompatibleStructure"
    /\ last.returned = <<TRUE>>
    /\ ~blocksHaveEqualStructure(last.pre, last.pre_other)
    /\ Len(last.pre.data) = 1
    /\ last.pre.data[1].type = "Int32" /\ last.pre_other.data[1].type = "Int64"
    /\ last.pre.data[1].name # last.pre_other.data[1].name
    /\ last.pre.data[1].size # last.pre_other.data[1].size

\* C19: clear() leaves the block with no elements, an empty position index
\* and an empty name index; a.swap(b) leaves a with the list, the position
\* index and the name index b had and b with those a had, so every lookup by
\* position and by name on a gives what it gave on b, and a second swap
\* restores both blocks.
C19_ClearAndSwap ==
    /\ last.op = "clear"
       => /\ data = <<>>
          /\ index_by_position = <<>>
          /\ DOMAIN index_by_name = {}
          /\ other = last.pre_other
    /\ last.op = "swap"
       => /\ This = last.pre_other
          /\ other = last.pre
          /\ \A position \in 0..MaxPairColumns :
                 /\ Block_getByPosition(This, position).error
                        = Block_getByPosition(last.pre_other, position).error
                 /\ Block_getByPosition(This, position).value
                        = Block_getByPosition(last.pre_other, position).value
          /\ \A name \in Names :
                 /\ Block_getPositionByName(This, name).error
                        = Block_getPositionByName(last.pre_other, name).error
                 /\ Block_getPositionByName(This, name).value
                        = Block_getPositionByName(last.pre_other, name).value
          /\ Block_swap(This, other).this = last.pre
          /\ Block_swap(This, other).other = last.pre_other

\* Two different blocks with columns were swapped.
C19_Witness ==
    /\ last.op = "swap"
    /\ Len(last.pre.data) = 2
    /\ Len(last.pre_other.data) = 1
    /\ last.pre.data[1].name # last.pre_other.data[1].name
    /\ Len(data) = 1

C20_EvaluationOrder ==
    /\ (/\ call.called
        /\ limits.min_execution_speed # 0
        /\ limits.min_execution_speed_bytes # 0
        /\ PastTimeout(call)
        /\ CorrectedOf(call) > 0
        /\ call.read_rows * MicrosecondsPerSecond
               < limits.min_execution_speed * CorrectedOf(call)
        /\ call.read_bytes * MicrosecondsPerSecond
               < limits.min_execution_speed_bytes * CorrectedOf(call))
       => (call.error = "TooSlow" /\ call.reason = "min_rows")
    /\ (call.called /\ call.error = "TooSlow")
       => (Slept(call) = 0 /\ throttler_sleep_microseconds = call.sleep_before)

\* C21: zero means disabled.  A threshold configured as zero never triggers
\* its condition: no TooSlow is raised for a floor or a max time that is 0,
\* no sleep is induced for a max speed that is 0; and with the five of them
\* at 0 a throttle call raises nothing, sleeps nothing and leaves the sleep
\* counter as it was, whatever the arguments and whatever
\* timeout_before_checking_execution_speed.
C21_ZeroMeansDisabled ==
    call.called
    => /\ limits.min_execution_speed = 0 => call.reason # "min_rows"
       /\ limits.min_execution_speed_bytes = 0 => call.reason # "min_bytes"
       /\ limits.max_execution_time = 0 => call.reason # "max_time"
       /\ limits.max_execution_speed = 0 => call.slept_rows = 0
       /\ limits.max_execution_speed_bytes = 0 => call.slept_bytes = 0
       /\ (/\ limits.min_execution_speed = 0
           /\ limits.max_execution_speed = 0
           /\ limits.min_execution_speed_bytes = 0
           /\ limits.max_execution_speed_bytes = 0
           /\ limits.max_execution_time = 0)
          => /\ call.error = "none"
             /\ Slept(call) = 0
             /\ throttler_sleep_microseconds = call.sleep_before

\* With the five thresholds at 0 and a timeout configured, a call with rows
\* read and rows to read passed the timeout on a thread whose sleep counter
\* is above the elapsed time, so that the checks were entered.
C21_Witness ==
    /\ call.called
    /\ limits.min_execution_speed = 0
    /\ limits.max_execution_speed = 0
    /\ limits.min_execution_speed_bytes = 0
    /\ limits.max_execution_speed_bytes = 0
    /\ limits.max_execution_time = 0
    /\ limits.timeout_before_checking_execution_speed # 0
    /\ call.total_rows # 0
    /\ call.read_rows # 0
    /\ PastTimeout(call)
    /\ call.sleep_before > call.total_elapsed_microseconds
    /\ call.error = "none"

\* The node the last call added to the list.
InsertedNode == CHOOSE n \in {data[i] : i \in 1..Len(data)} : n.id \notin NodeIds(last.pre.data)

\* C22: duplicate names, last insert wins.  insert(elem) and
\* insert(position, elem) with a position in bound accept an element whose
\* name the block already has, and right after it getByName(name) gives the
\* element just inserted and getPositionByName(name) its position: the end
\* for insert(elem), `position` for insert(position, elem).
C22_LastInsertWins ==
    (/\ last.op \in {"insert", "insert_at"}
     /\ last.op = "insert_at" => last.position <= Len(last.pre.data)
     /\ NamePresent(last.pre.data, last.name))
    => /\ last.error = "none"
       /\ Len(data) = Len(last.pre.data) + 1
       /\ InsertedNode.name = last.name
       /\ Block_getByName(This, last.name).error = "none"
       /\ Block_getByName(This, last.name).value = InsertedNode
       /\ Block_getPositionByName(This, last.name).error = "none"
       /\ Block_getPositionByName(This, last.name).value
              = (IF last.op = "insert" THEN Len(last.pre.data) ELSE last.position)
       /\ AtPosition(This, Block_getPositionByName(This, last.name).value) = InsertedNode

\* insert(0, elem) on a block of two columns that has the name of elem at
\* its end: the name now designates position 0.
C22_Witness ==
    /\ last.op = "insert_at"
    /\ last.position = 0
    /\ Len(last.pre.data) = 2
    /\ last.pre.data[2].name = last.name
    /\ last.pre.data[1].name # last.name
    /\ Block_getPositionByName(This, last.name).value = 0

\* The columns of a list in order, without the identity of the nodes.
Elements(d) == [i \in 1..Len(d) |-> [d[i] EXCEPT !.id = 0]]

\* C23: copy is observationally equal to its source.  After the assignment
\* of a block B to a block C, C has the elements of B in their order, has(n)
\* and getPositionByName(n) give on C what they give on B for every name n,
\* and B is unchanged.
C23_CopyEqualsSource ==
    last.op = "assign"
    => /\ Elements(data) = Elements(last.pre_other.data)
       /\ other = last.pre_other
       /\ \A n \in Names :
              /\ Block_has(This, n) = Block_has(other, n)
              /\ Block_getPositionByName(This, n).error
                     = Block_getPositionByName(other, n).error
              /\ Block_getPositionByName(This, n).value
                     = Block_getPositionByName(other, n).value

C25_OptimizeAllOrNothing ==
    (last.op = "optimizeNestedArraysOffsets" /\ last.error = "SizesMismatch")
    => This = last.pre

\* C26: exact structure implies compatible structure.  For the two blocks l
\* and r of the state, blocksHaveEqualStructure(l, r) implies
\* blocksHaveCompatibleStructure(l, r), either predicate gives on (r, l)
\* what it gives on (l, r), and either is true on (l, l) and on (r, r).
C26_EqualImpliesCompatible ==
    /\ blocksHaveEqualStructure(This, other) => blocksHaveCompatibleStructure(This, other)
    /\ blocksHaveEqualStructure(This, other) = blocksHaveEqualStructure(other, This)
    /\ blocksHaveCompatibleStructure(This, other) = blocksHaveCompatibleStructure(other, This)
    /\ \A b \in {This, other} :
           blocksHaveEqualStructure(b, b) /\ blocksHaveCompatibleStructure(b, b)
    /\ (last.op = "blocksHaveEqualStructure" /\ last.returned = <<TRUE>>)
       => blocksHaveCompatibleStructure(last.pre, last.pre_other)

\* blocksHaveEqualStructure was called and found equal two blocks of two
\* columns, one of a type that behaves neither as number nor as string,
\* with different names at a position.
C26_Witness ==
    /\ last.op = "blocksHaveEqualStructure"
    /\ last.returned = <<TRUE>>
    /\ Len(data) = 2
    /\ \E i \in 1..2 : data[i].type = ArrayType
    /\ \E i \in 1..2 : data[i].name # other.data[i].name

====
